---- MODULE Spec2Model ----
(***************************************************************************)
(* A model of src/server.js: the authoritative pong server.                *)
(*                                                                         *)
(* State: the clock Date.now() reads, the connections accepted so far      *)
(* (each with the playerId and assignedSide its handlers closed over), the *)
(* two objects players and playerSides (JavaScript objects, in property    *)
(* insertion order), gameState, and the messages the last handler or tick  *)
(* sent.                                                                   *)
(*                                                                         *)
(* Node runs every handler and every timer callback to completion, so each *)
(* handler and the whole setInterval callback is one action.               *)
(*                                                                         *)
(* JavaScript numbers are modelled as fixed-point values with Q units per  *)
(* 1.0, plus NaN: every arithmetic operator rounds its result to that grid *)
(* (IEEE doubles round to theirs).                                         *)
(***************************************************************************)
EXTENDS Integers, Sequences, FiniteSets, TLC

(* ------------------------------ bounds -------------------------------- *)

\* Fraction bits of the fixed-point grid (Q = 2^QBits units per 1.0).
QBits == 2
\* Connections accepted over a run of the registry specification.
MaxConns == 3
\* Largest reading of the clock (milliseconds since the start of the run) in
\* the registry and input specifications.
MaxClock == 2
\* Timer callbacks over a run of the registry specification.
MaxTicks == 1
\* Connections accepted over a run of the input specification.
MaxConnsInput == 2
\* Timer callbacks over a run of the input specification.
MaxTicksInput == 2
\* Connections accepted over a run of the physics specification.
MaxConnsPhys == 1
\* Timer callbacks over a run of the physics specification.
MaxTicksPhys == 202

(* ------------------------- program constants -------------------------- *)

PADDLE_HEIGHT == 80
PADDLE_WIDTH == 10
BALL_RADIUS == 8
CANVAS_WIDTH == 600
CANVAS_HEIGHT == 400

(* ------------------------- JavaScript numbers ------------------------- *)

Q == 2 ^ QBits

NaN == [nan |-> TRUE, v |-> 0]
\* The JavaScript number n/Q.
Raw(n) == [nan |-> FALSE, v |-> n]
\* The JavaScript number of the integer literal n.
Num(n) == Raw(n * Q)

JsAdd(a, b) == IF a.nan \/ b.nan THEN NaN ELSE Raw(a.v + b.v)
JsSub(a, b) == IF a.nan \/ b.nan THEN NaN ELSE Raw(a.v - b.v)
JsMul(a, b) == IF a.nan \/ b.nan THEN NaN ELSE Raw((a.v * b.v) \div Q)
\* Only ever used with a nonzero literal divisor.
JsDiv(a, b) == IF a.nan \/ b.nan THEN NaN ELSE Raw((a.v * Q) \div b.v)
\* Comparisons with NaN are false.
JsLt(a, b) == ~a.nan /\ ~b.nan /\ a.v < b.v
JsGt(a, b) == ~a.nan /\ ~b.nan /\ a.v > b.v
JsLe(a, b) == ~a.nan /\ ~b.nan /\ a.v <= b.v
JsGe(a, b) == ~a.nan /\ ~b.nan /\ a.v >= b.v
\* Math.min and Math.max return NaN when an argument is NaN.
MathMin(a, b) == IF a.nan \/ b.nan THEN NaN ELSE IF a.v <= b.v THEN a ELSE b
MathMax(a, b) == IF a.nan \/ b.nan THEN NaN ELSE IF a.v >= b.v THEN a ELSE b

(* ------------------------------- state -------------------------------- *)

VARIABLES
    now,          \* what Date.now() returns
    conns,        \* the connections accepted so far, in order of arrival: the
                  \* id and side each got, whether its socket is open, and
                  \* whether a failed send has removed it from the registry
    players,      \* the object players: <<[id, sock]>> in insertion order
    playerSides,  \* the object playerSides: <<[id, side]>> in insertion order
    gameState,    \* the object gameState
    sent,         \* the messages the last handler or tick sent
    ticks         \* timer callbacks run so far

vars == <<now, conns, players, playerSides, gameState, sent, ticks>>

Sides == {"left", "right"}

(* ---------------------- JavaScript objects as maps -------------------- *)

\* Object.keys(o)
Keys(o) == [i \in 1..Len(o) |-> o[i].id]
HasKey(o, id) == \E i \in 1..Len(o) : o[i].id = id
\* o[id] = e: an existing property keeps its place, a new one goes last.
Put(o, e) ==
    IF HasKey(o, e.id)
    THEN [i \in 1..Len(o) |-> IF o[i].id = e.id THEN e ELSE o[i]]
    ELSE Append(o, e)
\* delete o[id]
Delete(o, id) == SelectSeq(o, LAMBDA e : e.id # id)
\* Object.values(playerSides)
SideValues(o) == [i \in 1..Len(o) |-> o[i].side]
\* array.includes(x)
Includes(arr, x) == \E i \in 1..Len(arr) : arr[i] = x
\* playerSides[id]: a side, or undefined
NoSide == "undefined"
SideAt(o, id) ==
    IF HasKey(o, id) THEN (CHOOSE e \in {o[i] : i \in 1..Len(o)} : e.id = id).side
    ELSE NoSide

(* ------------------------------- Init --------------------------------- *)

InitGameState ==
    [ball    |-> [x |-> Num(300), y |-> Num(200), vx |-> Num(3), vy |-> Num(2)],
     paddles |-> [left |-> [y |-> Num(160)], right |-> [y |-> Num(160)]],
     score   |-> [left |-> 0, right |-> 0]]

Init ==
    /\ now = 0
    /\ conns = <<>>
    /\ players = <<>>
    /\ playerSides = <<>>
    /\ gameState = InitGameState
    /\ sent = <<>>
    /\ ticks = 0

(* ------------------------------ connect ------------------------------- *)

\* Lines 50-57 choosing by the number of sides taken instead of which.
AssignSideByCount(o) == IF Len(o) = 0 THEN "left" ELSE "right"

\* Lines 46-57 with the fallback branch giving the other side.
AssignSideFallbackRight(o) ==
    LET activeSides == SideValues(o) IN
    IF ~Includes(activeSides, "left") THEN "left" ELSE "right"

\* Lines 46-57: the side given to a connection that arrives when the side map is o.
AssignSide(o) ==
    LET activeSides == SideValues(o) IN
    IF ~Includes(activeSides, "left") THEN "left"
    ELSE IF ~Includes(activeSides, "right") THEN "right"
    ELSE "left"

\* Line 43: Date.now().toString()
NewPlayerId == now

\* The whole connect handler, lines 42-91, for the next connection. The socket
\* it is handed is open, and the assignment is sent on it.
Connect(maxConns) ==
    /\ Len(conns) < maxConns
    /\ LET c == Len(conns) + 1
           playerId == NewPlayerId
           assignedSide == AssignSide(playerSides)
       IN /\ players' = Put(players, [id |-> playerId, sock |-> c])
          /\ playerSides' = Put(playerSides, [id |-> playerId, side |-> assignedSide])
          /\ conns' = Append(conns, [pid |-> playerId, assignedSide |-> assignedSide,
                                     open |-> TRUE, removed |-> FALSE])
          /\ sent' = <<[type |-> "assignment", to |-> c, side |-> assignedSide]>>
    /\ UNCHANGED <<now, gameState, ticks>>

(* ------------------------------- close -------------------------------- *)

\* Lines 87-91 without line 89.
CloseKeepsPlayer(c) ==
    /\ c \in 1..Len(conns)
    /\ conns[c].open
    /\ players' = players
    /\ playerSides' = Delete(playerSides, conns[c].pid)
    /\ conns' = [conns EXCEPT ![c].open = FALSE]
    /\ sent' = <<>>
    /\ UNCHANGED <<now, gameState, ticks>>

\* Lines 87-91, for connection c, whose socket closes once.
Close(c) ==
    /\ c \in 1..Len(conns)
    /\ conns[c].open
    /\ players' = Delete(players, conns[c].pid)
    /\ playerSides' = Delete(playerSides, conns[c].pid)
    /\ conns' = [conns EXCEPT ![c].open = FALSE]
    /\ sent' = <<>>
    /\ UNCHANGED <<now, gameState, ticks>>

(* ------------------------------ message ------------------------------- *)

\* The values of y tried: a number below the range, one above it, a missing y
\* and a string that is no numeral.
AbsentY == [t |-> "absent", n |-> NaN]
StringY == [t |-> "string", n |-> NaN]
BigY == [t |-> "number", n |-> Num(1000)]
YValues == {[t |-> "number", n |-> Num(-5)], BigY, AbsentY}

\* The payloads tried: text that is no JSON, the JSON null, an object of
\* another type, moves for either side with each y, and moves with a string
\* for y, with an unknown side and with no side.
Messages ==
    {[parse |-> "error", type |-> "absent", side |-> "absent", y |-> AbsentY],
     [parse |-> "null", type |-> "absent", side |-> "absent", y |-> AbsentY],
     [parse |-> "object", type |-> "ping", side |-> "left", y |-> BigY],
     [parse |-> "object", type |-> "move", side |-> "left", y |-> StringY],
     [parse |-> "object", type |-> "move", side |-> "up", y |-> BigY],
     [parse |-> "object", type |-> "move", side |-> "absent", y |-> BigY]}
    \cup [parse : {"object"}, type : {"move"}, side : Sides, y : YValues]

\* The moves to the bottom of the range, for either side.
PlainMoves == [parse : {"object"}, type : {"move"}, side : Sides, y : {BigY}]
\* The moves for the left side with a y below the range and with none.
LeftMoves == [parse : {"object"}, type : {"move"}, side : {"left"}, y : YValues \ {BigY}]

\* ToNumber(data.y), as Math.min applies it: undefined and a string that is no
\* numeral give NaN.
ToNumber(y) == IF y.t = "number" THEN y.n ELSE NaN

\* Lines 77-79.
Clamp(y) == MathMax(Num(0), MathMin(Num(CANVAS_HEIGHT - PADDLE_HEIGHT), ToNumber(y)))

\* data.side === playerSide, where a missing data.side is undefined.
SameSide(dataSide, playerSide) ==
    (IF dataSide = "absent" THEN NoSide ELSE dataSide) = playerSide

\* gameState.paddles[data.side] is an object.
HasPaddle(dataSide) == dataSide \in Sides

\* Line 75 without the comparison with the sender's side.
AuthorizedAnySender(m, playerSide) == HasPaddle(m.side)

\* Line 75.
Authorized(m, playerSide) == SameSide(m.side, playerSide) /\ HasPaddle(m.side)

\* Lines 70-84: gameState after the handler of the connection registered as
\* playerSide has handled m. JSON.parse throws on text that is no JSON and
\* data.type throws on null; the catch swallows both.
ApplyMessage(gs, m, playerSide) ==
    IF m.parse = "object" /\ m.type = "move" /\ Authorized(m, playerSide)
    THEN [gs EXCEPT !.paddles[m.side].y = Clamp(m.y)]
    ELSE gs

\* Lines 70-84 for connection c: line 74 reads the side under the playerId the
\* handler closed over.
HandlerResult(c, m) == ApplyMessage(gameState, m, SideAt(playerSides, conns[c].pid))

\* Lines 69-85, for a message m arriving on connection c. The handler stays
\* attached until the socket closes.
Message(c, m) ==
    /\ c \in 1..Len(conns)
    /\ conns[c].open
    /\ gameState' = HandlerResult(c, m)
    /\ sent' = <<>>
    /\ UNCHANGED <<now, conns, players, playerSides, ticks>>

(* ------------------------------- tick --------------------------------- *)

\* PADDLE_HEIGHT/2
HalfPaddle == JsDiv(Num(PADDLE_HEIGHT), Num(2))

\* Lines 120-121.
Integrate(b) == [b EXCEPT !.x = JsAdd(b.x, b.vx), !.y = JsAdd(b.y, b.vy)]

\* Line 124.
WallContact(b) ==
    \/ JsLt(JsSub(b.y, Num(BALL_RADIUS)), Num(0))
    \/ JsGt(JsAdd(b.y, Num(BALL_RADIUS)), Num(CANVAS_HEIGHT))

\* Lines 124-126 with the test of the top wall only.
WallBounceTopOnly(b) ==
    IF JsLt(JsSub(b.y, Num(BALL_RADIUS)), Num(0))
    THEN [b EXCEPT !.vy = JsMul(b.vy, Num(-1))]
    ELSE b

\* Lines 124-126.
WallBounce(b) == IF WallContact(b) THEN [b EXCEPT !.vy = JsMul(b.vy, Num(-1))] ELSE b

\* Lines 129-132 with the two tests of ball.y written as negated < and >.
LeftHitNegated(b, paddles) ==
    /\ JsLe(JsSub(b.x, Num(BALL_RADIUS)), Num(20 + PADDLE_WIDTH))
    /\ ~JsLt(b.y, paddles.left.y)
    /\ ~JsGt(b.y, JsAdd(paddles.left.y, Num(PADDLE_HEIGHT)))
    /\ JsLt(b.vx, Num(0))

\* Lines 129-132.
LeftHit(b, paddles) ==
    /\ JsLe(JsSub(b.x, Num(BALL_RADIUS)), Num(20 + PADDLE_WIDTH))
    /\ JsGe(b.y, paddles.left.y)
    /\ JsLe(b.y, JsAdd(paddles.left.y, Num(PADDLE_HEIGHT)))
    /\ JsLt(b.vx, Num(0))

\* Lines 140-143.
RightHit(b, paddles) ==
    /\ JsGe(JsAdd(b.x, Num(BALL_RADIUS)), Num(CANVAS_WIDTH - 20 - PADDLE_WIDTH))
    /\ JsGe(b.y, paddles.right.y)
    /\ JsLe(b.y, JsAdd(paddles.right.y, Num(PADDLE_HEIGHT)))
    /\ JsGt(b.vx, Num(0))

\* Lines 133-136 and 144-147 with a bounce that doubles the horizontal speed.
PaddleBounceFaster(b, paddleY) ==
    LET hitPos == JsDiv(JsSub(JsSub(b.y, paddleY), HalfPaddle), HalfPaddle)
    IN [b EXCEPT !.vx = JsMul(b.vx, Num(-2)),
                 !.vy = JsAdd(b.vy, JsMul(hitPos, Num(2)))]

\* Lines 133-136 and 144-147: the bounce off the paddle at paddleY, with spin.
PaddleBounce(b, paddleY) ==
    LET hitPos == JsDiv(JsSub(JsSub(b.y, paddleY), HalfPaddle), HalfPaddle)
    IN [b EXCEPT !.vx = JsMul(b.vx, Num(-1)),
                 !.vy = JsAdd(b.vy, JsMul(hitPos, Num(2)))]

\* Lines 129-137.
LeftCollision(b, paddles) ==
    IF LeftHit(b, paddles) THEN PaddleBounce(b, paddles.left.y) ELSE b

\* Lines 140-148.
RightCollision(b, paddles) ==
    IF RightHit(b, paddles) THEN PaddleBounce(b, paddles.right.y) ELSE b

\* The values Math.random() returns in the model: 0, 0.5 and 0.75.
Randoms == {Raw(0), Raw(Q \div 2), Raw((3 * Q) \div 4)}
Half == Raw(Q \div 2)

\* Lines 110-115 with the ball put back at the right edge instead of the centre.
resetBallAtEdge(r1, r2) ==
    [x  |-> Num(CANVAS_WIDTH),
     y  |-> JsDiv(Num(CANVAS_HEIGHT), Num(2)),
     vx |-> JsMul(IF JsGt(r1, Half) THEN Num(1) ELSE Num(-1), Num(3)),
     vy |-> JsMul(JsSub(r2, Half), Num(4))]

\* Lines 110-115, with r1 and r2 the two values Math.random() returns.
resetBall(r1, r2) ==
    [x  |-> JsDiv(Num(CANVAS_WIDTH), Num(2)),
     y  |-> JsDiv(Num(CANVAS_HEIGHT), Num(2)),
     vx |-> JsMul(IF JsGt(r1, Half) THEN Num(1) ELSE Num(-1), Num(3)),
     vy |-> JsMul(JsSub(r2, Half), Num(4))]

\* Line 151 with <= for <.
ScoresRightAtEdge(b) == JsLe(b.x, Num(0))

\* Line 151 and line 154.
ScoresRight(b) == JsLt(b.x, Num(0))
ScoresLeft(b) == ~ScoresRight(b) /\ JsGt(b.x, Num(CANVAS_WIDTH))

\* Lines 151-157.
Scoring(gs, r1, r2) ==
    IF ScoresRight(gs.ball)
    THEN [gs EXCEPT !.score.right = @ + 1, !.ball = resetBall(r1, r2)]
    ELSE IF ScoresLeft(gs.ball)
    THEN [gs EXCEPT !.score.left = @ + 1, !.ball = resetBall(r1, r2)]
    ELSE gs

\* Lines 120-148: integration, wall bounce and paddle collisions.
Moved(gs) ==
    LET b1 == WallBounce(Integrate(gs.ball))
        b2 == LeftCollision(b1, gs.paddles)
        b3 == RightCollision(b2, gs.paddles)
    IN [gs EXCEPT !.ball = b3]

\* Lines 120-157: the physics of one tick.
Step(gs, r1, r2) == Scoring(Moved(gs), r1, r2)

\* The pairs of values the tick's calls of Math.random() return: resetBall calls
\* it twice, and a tick that counts no score does not call it (the pair is
\* then never read).
Draws(gs) ==
    IF ScoresRight(Moved(gs).ball) \/ ScoresLeft(Moved(gs).ball)
    THEN Randoms \X Randoms
    ELSE {<<NaN, NaN>>}

\* What a socket does with the packet: readyState is 1 and send returns, or
\* readyState is not 1, or readyState is 1 and send throws.
Outcomes == {"sent", "notReady", "threw"}

\* JSON.stringify of a number, line 161: NaN is written as null.
JsonNumber(n) == IF n.nan THEN [t |-> "null", v |-> 0] ELSE [t |-> "number", v |-> n.v]

\* JSON.stringify of gameState, lines 161-163.
JsonState(gs) ==
    [ball    |-> [x  |-> JsonNumber(gs.ball.x),  y  |-> JsonNumber(gs.ball.y),
                  vx |-> JsonNumber(gs.ball.vx), vy |-> JsonNumber(gs.ball.vy)],
     paddles |-> [left  |-> [y |-> JsonNumber(gs.paddles.left.y)],
                  right |-> [y |-> JsonNumber(gs.paddles.right.y)]],
     score   |-> gs.score]

\* Lines 161-166 counting the connections accepted instead of the keys of players.
PacketCountsAccepted(gs, ps, sides) ==
    [type |-> "state", state |-> JsonState(gs), playerCount |-> Len(conns),
     activeSides |-> SideValues(sides)]

\* Lines 161-166.
Packet(gs, ps, sides) ==
    [type |-> "state", state |-> JsonState(gs), playerCount |-> Len(Keys(ps)),
     activeSides |-> SideValues(sides)]

\* Lines 167-178 with the catch outside the loop: a throw ends the loop.
RECURSIVE BroadcastLoopEndsOnThrow(_, _, _, _, _)
BroadcastLoopEndsOnThrow(i, ids, packet, o, reg) ==
    IF i > Len(ids) THEN reg
    ELSE LET id == ids[i]
             ws == (CHOOSE e \in {reg[1][k] : k \in 1..Len(reg[1])} : e.id = id).sock
         IN CASE o[i] = "sent" ->
                   BroadcastLoopEndsOnThrow(i + 1, ids, packet, o,
                       <<reg[1], reg[2], Append(reg[3], [packet EXCEPT !.to = ws])>>)
              [] o[i] = "notReady" -> BroadcastLoopEndsOnThrow(i + 1, ids, packet, o, reg)
              [] o[i] = "threw" -> <<Delete(reg[1], id), Delete(reg[2], id), reg[3]>>

\* Lines 167-178 without line 175: a failed send only deletes from players.
RECURSIVE BroadcastLoopKeepsSide(_, _, _, _, _)
BroadcastLoopKeepsSide(i, ids, packet, o, reg) ==
    IF i > Len(ids) THEN reg
    ELSE IF ~HasKey(reg[1], ids[i]) THEN BroadcastLoopKeepsSide(i + 1, ids, packet, o, reg)
    ELSE LET id == ids[i]
             ws == (CHOOSE e \in {reg[1][k] : k \in 1..Len(reg[1])} : e.id = id).sock
         IN CASE o[i] = "sent" ->
                   BroadcastLoopKeepsSide(i + 1, ids, packet, o,
                       <<reg[1], reg[2], Append(reg[3], [packet EXCEPT !.to = ws])>>)
              [] o[i] = "notReady" -> BroadcastLoopKeepsSide(i + 1, ids, packet, o, reg)
              [] o[i] = "threw" ->
                   BroadcastLoopKeepsSide(i + 1, ids, packet, o,
                       <<Delete(reg[1], id), reg[2], reg[3]>>)

\* Lines 167-178: the loop from the i-th key of the object as it was when the
\* loop began (ids); reg is <<players, playerSides, sent>> so far. A key deleted
\* before the loop reaches it is not visited.
RECURSIVE BroadcastLoop(_, _, _, _, _)
BroadcastLoop(i, ids, packet, o, reg) ==
    IF i > Len(ids) THEN reg
    ELSE IF ~HasKey(reg[1], ids[i]) THEN BroadcastLoop(i + 1, ids, packet, o, reg)
    ELSE LET id == ids[i]
             ws == (CHOOSE e \in {reg[1][k] : k \in 1..Len(reg[1])} : e.id = id).sock
         IN CASE o[i] = "sent" ->
                   BroadcastLoop(i + 1, ids, packet, o,
                       <<reg[1], reg[2], Append(reg[3], [packet EXCEPT !.to = ws])>>)
              [] o[i] = "notReady" -> BroadcastLoop(i + 1, ids, packet, o, reg)
              [] o[i] = "threw" ->
                   BroadcastLoop(i + 1, ids, packet, o,
                       <<Delete(reg[1], id), Delete(reg[2], id), reg[3]>>)

\* Lines 160-179: <<players, playerSides, sent>> after the broadcast of gs.
Broadcast(gs, ps, sides, o) ==
    IF Len(Keys(ps)) > 0
    THEN BroadcastLoop(1, Keys(ps), Packet(gs, ps, sides) @@ [to |-> 0], o,
                       <<ps, sides, <<>>>>)
    ELSE <<ps, sides, <<>>>>

\* The sockets stored in players.
Socks(ps) == {ps[i].sock : i \in 1..Len(ps)}

\* The timer callback, lines 118-180, when Math.random() returns r1 and r2 and
\* the socket of the i-th key of players does o[i].
TickBody(r1, r2, o) ==
    LET gs == Step(gameState, r1, r2)
        reg == Broadcast(gs, players, playerSides, o)
    IN /\ gameState' = gs
       /\ players' = reg[1]
       /\ playerSides' = reg[2]
       /\ sent' = reg[3]
       /\ ticks' = ticks + 1
       /\ conns' = [c \in 1..Len(conns) |->
                       IF c \in Socks(players) \ Socks(reg[1])
                       THEN [conns[c] EXCEPT !.removed = TRUE]
                       ELSE conns[c]]
       /\ now' = now

\* The whole timer callback, lines 118-180.
Tick(maxTicks) ==
    /\ ticks < maxTicks
    /\ \E d \in Draws(gameState), o \in [1..Len(players) -> Outcomes] :
          TickBody(d[1], d[2], o)

(* ------------------------------- clock -------------------------------- *)

\* A millisecond passes.
Tock(maxClock) ==
    /\ now < maxClock
    /\ now' = now + 1
    /\ sent' = <<>>
    /\ UNCHANGED <<conns, players, playerSides, gameState, ticks>>

(* --------------------------- specifications --------------------------- *)

NextB(maxConns, maxTicks, maxClock, msgs) ==
    \/ Connect(maxConns)
    \/ \E c \in 1..maxConns : Close(c)
    \/ \E c \in 1..maxConns, m \in msgs : Message(c, m)
    \/ Tick(maxTicks)
    \/ Tock(maxClock)

\* The registry: three connections, of which any may close or fail, a tick,
\* and one in-range move per side.
Next == NextB(MaxConns, MaxTicks, MaxClock, PlainMoves)
Spec == Init /\ [][Next]_vars

\* The input handler: two connections and every payload.
NextInput == NextB(MaxConnsInput, MaxTicksInput, MaxClock, Messages)
SpecInput == Init /\ [][NextInput]_vars

\* The physics: one connection, which may move the left paddle, and the ticks
\* a ball needs to score on both sides. The clock, which only the ids read,
\* stands still.
NextPhys ==
    \/ Connect(MaxConnsPhys)
    \/ \E c \in 1..MaxConnsPhys : Close(c)
    \/ \E c \in 1..MaxConnsPhys, m \in LeftMoves : Message(c, m)
    \/ Tick(MaxTicksPhys)
SpecPhys == Init /\ [][NextPhys]_vars

(* ------------------------------- claims ------------------------------- *)

\* A stored paddle y that is a number within [0, CANVAS_HEIGHT - PADDLE_HEIGHT].
InRange(y) == JsGe(y, Num(0)) /\ JsLe(y, Num(CANVAS_HEIGHT - PADDLE_HEIGHT))

\* C1: in every reachable state both stored paddle y values are numbers within
\* [0, 320], whatever y the move messages carried.
C1_PaddlesInRange ==
    /\ InRange(gameState.paddles.left.y)
    /\ InRange(gameState.paddles.right.y)

\* The side the registry assigns to connection c (undefined when it holds none).
SideOf(c) == SideAt(playerSides, conns[c].pid)
OtherSide(s) == IF s = "left" THEN "right" ELSE "left"
IsMove(m) == m.parse = "object" /\ m.type = "move"

\* C2: in every reachable state, the handler of any open connection c, given
\* any move message, writes a paddle exactly when the side the message names is
\* the side the registry assigns to c; it then writes the clamped y to that
\* side's paddle and leaves the other paddle as it was, and otherwise it leaves
\* both paddles as they were.
C2_MoveAppliedIffOwnSide ==
    \A c \in 1..Len(conns), m \in Messages :
        (conns[c].open /\ IsMove(m)) =>
            LET after == HandlerResult(c, m) IN
            IF m.side \in Sides /\ m.side = SideOf(c)
            THEN /\ after.paddles[m.side].y = Clamp(m.y)
                 /\ after.paddles[OtherSide(m.side)] =
                        gameState.paddles[OtherSide(m.side)]
            ELSE after.paddles = gameState.paddles

\* C2's case: the left holder's move for left has been applied (1000 clamped
\* to 320) while a right holder is registered and the right paddle is untouched.
C2_Witness ==
    /\ gameState.paddles.left.y = Num(CANVAS_HEIGHT - PADDLE_HEIGHT)
    /\ gameState.paddles.right.y = Num(160)
    /\ \E c \in 1..Len(conns) : conns[c].open /\ SideOf(c) = "left"
    /\ \E c \in 1..Len(conns) : conns[c].open /\ SideOf(c) = "right"

\* Some entry of the side map holds side s.
Held(o, s) == \E i \in 1..Len(o) : o[i].side = s

\* C3: a connect gives the new connection left if no registered connection
\* holds left, else right if none holds right, else left; the registry records
\* that side under the new connection's id and the assignment message sent to
\* it names it; and while every connection accepted is still registered, the
\* first, second and third hold the assignments left, right, left.
C3_AssignmentPolicy ==
    /\ [][Connect(MaxConns) =>
            LET c == Len(conns')
                side == IF ~Held(playerSides, "left") THEN "left"
                        ELSE IF ~Held(playerSides, "right") THEN "right"
                        ELSE "left"
            IN /\ c = Len(conns) + 1
               /\ SideAt(playerSides', conns'[c].pid) = side
               /\ sent' = <<[type |-> "assignment", to |-> c, side |-> side]>>]_vars
    /\ [](Len(players) = Len(conns) =>
            \A c \in 1..Len(conns) :
                c <= 3 => conns[c].assignedSide = <<"left", "right", "left">>[c])

\* C3's case: three connections are registered at once, the third on the
\* fallback side.
C3_Witness ==
    /\ Len(conns) = 3
    /\ Len(players) = 3
    /\ conns[3].assignedSide = "left"
    /\ sent = <<[type |-> "assignment", to |-> 3, side |-> "left"]>>

\* C4: no two connections accepted have the same id.
C4_DistinctIds ==
    \A c, d \in 1..Len(conns) : c # d => conns[c].pid # conns[d].pid

\* The state packets among msgs that went to socket ws.
PacketsTo(msgs, ws) == {i \in 1..Len(msgs) : msgs[i].type = "state" /\ msgs[i].to = ws}

\* The step is a tick whose sockets did o.
TickWith(o) ==
    /\ ticks' = ticks + 1
    /\ <<players', playerSides', sent'>> = Broadcast(gameState', players, playerSides, o)

\* C5: the close handler of a connection leaves its id in neither map, with one
\* key fewer in players if the id was there; no state packet goes to a
\* connection whose close has been handled; and every packet of a tick carries
\* the number of keys players had when the tick began.
C5_ClosedIsGone ==
    /\ [][\A c \in 1..Len(conns) :
            Close(c) =>
                /\ ~HasKey(players', conns[c].pid)
                /\ ~HasKey(playerSides', conns[c].pid)
                /\ Len(players') =
                       Len(players) - (IF HasKey(players, conns[c].pid) THEN 1 ELSE 0)]_vars
    /\ [](\A i \in 1..Len(sent) : sent[i].type = "state" => conns[sent[i].to].open)
    /\ [][ticks' = ticks + 1 =>
            \A i \in 1..Len(sent') : sent'[i].playerCount = Len(players)]_vars

\* C5's case: of two connections one has closed, and the tick after it sent the
\* other a packet counting one player.
C5_Witness ==
    /\ Len(conns) = 2
    /\ ~conns[1].open
    /\ conns[2].open
    /\ Len(sent) = 1
    /\ sent[1].type = "state"
    /\ sent[1].to = 2
    /\ sent[1].playerCount = 1

\* A message that is a move naming a side and carrying a number.
WellFormed(m) == IsMove(m) /\ m.side \in Sides /\ m.y.t = "number"

\* C6: handling a message that is not a well-formed move leaves gameState and
\* both registry maps as they were (so the sender stays registered), and the
\* timer callback can still run.
C6_MalformedIgnored ==
    [][\A c \in 1..Len(conns), m \in Messages :
          (~WellFormed(m) /\ Message(c, m)) =>
              /\ gameState' = gameState
              /\ players' = players
              /\ playerSides' = playerSides
              /\ ticks' = ticks]_vars

\* C7: in a tick's broadcast every key of players gets what its socket did: a
\* socket that was ready and sent gets exactly one state packet and stays in
\* both maps; one that was not ready gets none and stays; one whose send threw
\* gets none and leaves both maps; whatever the other sockets did.
C7_ThreeOutcomes ==
    [][\A o \in [1..Len(players) -> Outcomes] :
          TickWith(o) =>
              \A i \in 1..Len(players) :
                  LET e == players[i]
                      n == Cardinality(PacketsTo(sent', e.sock))
                      stays == HasKey(players', e.id) /\ HasKey(playerSides', e.id)
                      gone == ~HasKey(players', e.id) /\ ~HasKey(playerSides', e.id)
                  IN CASE o[i] = "sent" -> n = 1 /\ stays
                       [] o[i] = "notReady" -> n = 0 /\ stays
                       [] o[i] = "threw" -> n = 0 /\ gone]_vars

\* C7's case: in one tick the first connection's send threw, the second was
\* not ready and the third got the packet.
C7_Witness ==
    /\ Len(conns) = 3
    /\ \A c \in 1..3 : conns[c].open
    /\ Keys(players) = <<conns[2].pid, conns[3].pid>>
    /\ Len(sent) = 1
    /\ sent[1].type = "state"
    /\ sent[1].to = 3
    /\ sent[1].playerCount = 3

\* C8: the activeSides of every state packet of a tick holds each side some
\* key of playerSides had when the tick began, no other side, and no side twice.
C8_ActiveSidesIsSet ==
    [][ticks' = ticks + 1 =>
          \A i \in 1..Len(sent') :
              LET a == sent'[i].activeSides IN
              /\ \A s \in Sides : Includes(a, s) <=> Held(playerSides, s)
              /\ \A j, k \in 1..Len(a) : j # k => a[j] # a[k]]_vars

\* C9 as claimed: every state packet carries the number of keys players has
\* at the moment the packet is sent, the keys deleted earlier in the same loop
\* not counted.
C9_CountAtSendTime ==
    [][\A o \in [1..Len(players) -> Outcomes] :
          TickWith(o) =>
              \A k \in 1..Len(players) :
                  \A i \in PacketsTo(sent', players[k].sock) :
                      sent'[i].playerCount =
                          Len(players) - Cardinality({j \in 1..(k - 1) : o[j] = "threw"})]_vars

\* C9 as amended: every state packet of a tick carries the number of keys
\* players had when the tick's broadcast began.
C9_CountAtSerialization ==
    [][ticks' = ticks + 1 =>
          \A i \in 1..Len(sent') :
              /\ sent'[i].type = "state"
              /\ sent'[i].playerCount = Len(Keys(players))]_vars

\* C9's case: the first connection's send threw and the packet then sent to
\* the second still counts two players.
C9_Witness ==
    /\ Len(conns) = 2
    /\ conns[1].open
    /\ Keys(players) = <<conns[2].pid>>
    /\ conns[1].pid # conns[2].pid
    /\ Len(sent) = 1
    /\ sent[1].type = "state"
    /\ sent[1].to = 2
    /\ sent[1].playerCount = 2

\* C10: a tick whose integrated ball has x < 0 adds exactly 1 to right's score
\* and leaves left's; one whose integrated ball has x > CANVAS_WIDTH adds
\* exactly 1 to left's and leaves right's; any other tick leaves both.
C10_Scoring ==
    [][ticks' = ticks + 1 =>
          LET b == Integrate(gameState.ball)
              sc == gameState.score
          IN IF JsLt(b.x, Num(0))
             THEN gameState'.score = [left |-> sc.left, right |-> sc.right + 1]
             ELSE IF JsGt(b.x, Num(CANVAS_WIDTH))
             THEN gameState'.score = [left |-> sc.left + 1, right |-> sc.right]
             ELSE gameState'.score = sc]_vars

\* C10's case: both sides have scored.
C10_Witness == gameState.score.left >= 1 /\ gameState.score.right >= 1

\* The state packets in msgs.
StatePackets(msgs) == {i \in 1..Len(msgs) : msgs[i].type = "state"}

\* C11: a tick that counts a score ends with the ball at x = 300, y = 200 and
\* with vx equal to 3 or to -3, and every state packet the tick sends carries
\* that ball.
C11_ScoreResetsBall ==
    [][(ticks' = ticks + 1 /\ gameState'.score # gameState.score) =>
          /\ gameState'.ball.x = Num(300)
          /\ gameState'.ball.y = Num(200)
          /\ gameState'.ball.vx \in {Num(3), Num(-3)}
          /\ \A i \in StatePackets(sent') : sent'[i].state.ball = JsonState(gameState').ball]_vars

\* C11's case: a packet sent by the tick that counted the first point shows the
\* ball at the centre, going left.
C11_Witness ==
    \E i \in StatePackets(sent) :
        /\ sent[i].state.score = [left |-> 1, right |-> 0]
        /\ sent[i].state.ball.x = JsonNumber(Num(300))
        /\ sent[i].state.ball.y = JsonNumber(Num(200))
        /\ sent[i].state.ball.vx = JsonNumber(Num(-3))

\* The sign of a number.
Sgn(n) == IF n.nan THEN "nan" ELSE IF n.v > 0 THEN "pos" ELSE IF n.v < 0 THEN "neg" ELSE "zero"
Opposite(s, t) == (s = "pos" /\ t = "neg") \/ (s = "neg" /\ t = "pos")

\* The step is a tick whose ball is in contact with the top or the bottom wall
\* after integration.
WallContactTick ==
    /\ ticks' = ticks + 1
    /\ WallContact(Integrate(gameState.ball))

\* The tick that starts in this state fires a paddle collision.
PaddleFires ==
    LET b1 == WallBounce(Integrate(gameState.ball))
    IN \/ LeftHit(b1, gameState.paddles)
       \/ RightHit(LeftCollision(b1, gameState.paddles), gameState.paddles)

\* C12 as stated: in a tick whose ball is in wall contact after integration, vy
\* ends the tick with the sign opposite to the one it started with and vx ends
\* it with the sign it started with.
C12_WallContactFlipsVyOnly ==
    [][WallContactTick =>
          /\ Opposite(Sgn(gameState.ball.vy), Sgn(gameState'.ball.vy))
          /\ Sgn(gameState'.ball.vx) = Sgn(gameState.ball.vx)]_vars

\* C12 amended: in a tick whose ball is in wall contact after integration, in
\* which no paddle collision fires and no score is counted, vy ends the tick as
\* the negation of its value at the start and vx ends it unchanged.
C12_WallBounceAlone ==
    [][(WallContactTick /\ ~PaddleFires /\ gameState'.score = gameState.score) =>
          /\ gameState'.ball.vy = JsMul(gameState.ball.vy, Num(-1))
          /\ gameState'.ball.vx = gameState.ball.vx]_vars

\* C12's case: the ball of the first rally has just bounced off the bottom
\* wall: it is still in contact with it and moves up, to the right as before.
C12_Witness ==
    /\ gameState.score = [left |-> 0, right |-> 0]
    /\ JsGt(JsAdd(gameState.ball.y, Num(BALL_RADIUS)), Num(CANVAS_HEIGHT))
    /\ gameState.ball.vy = Num(-2)
    /\ gameState.ball.vx = Num(3)

\* C13: no tick both fires the left paddle collision and counts a score for
\* ball.x < 0, and no tick both fires the right paddle collision and counts a
\* score for ball.x > 600.
C13_NoCollisionWithScore ==
    [][ticks' = ticks + 1 =>
          LET b1 == WallBounce(Integrate(gameState.ball))
              b2 == LeftCollision(b1, gameState.paddles)
          IN /\ ~(/\ LeftHit(b1, gameState.paddles)
                  /\ gameState'.score.right = gameState.score.right + 1)
             /\ ~(/\ RightHit(b2, gameState.paddles)
                  /\ gameState'.score.left = gameState.score.left + 1)]_vars

\* C14: neither score counter ever decreases, the ball's x and y are always
\* numbers other than NaN, and over one tick the sum of the two counters grows
\* by at most 1.
C14_ScoresGrowBallDefined ==
    /\ [](~gameState.ball.x.nan /\ ~gameState.ball.y.nan)
    /\ [][/\ gameState'.score.left >= gameState.score.left
           /\ gameState'.score.right >= gameState.score.right
           /\ gameState'.score.left + gameState'.score.right
                  <= gameState.score.left + gameState.score.right + 1]_vars

\* C14's case: both sides have scored and the ball has gone past a left paddle
\* whose y is NaN.
C14_Witness ==
    /\ gameState.paddles.left.y = NaN
    /\ gameState.score = [left |-> 1, right |-> 1]

\* {type: "move", side: "left", y: 1000}
MoveLeftTo1000 == [parse |-> "object", type |-> "move", side |-> "left", y |-> BigY]

\* Two connections have joined, none has left and no tick has run yet.
TwoJoined == Len(conns) = 2 /\ conns[1].open /\ conns[2].open /\ ticks = 0

\* The second connection joined while the first was there, the first has left
\* and the second is still in the registry.
LeftHolderGone ==
    /\ Len(conns) = 2
    /\ conns[2].assignedSide = "right"
    /\ ~conns[1].open
    /\ conns[2].open
    /\ \E i \in 1..Len(players) : players[i].sock = 2

\* C15: of two connections that join an empty registry the first gets left and
\* the second right; the move of the first for left with y = 1000 sets
\* paddles.left.y to 320; a tick broadcasts the paddles as the handlers left
\* them; and once the first has disconnected a tick's packet has playerCount 1
\* and activeSides <<"right">>.
C15_Scenario ==
    /\ [](TwoJoined =>
            /\ conns[1].assignedSide = "left"
            /\ conns[2].assignedSide = "right"
            /\ HandlerResult(1, MoveLeftTo1000).paddles.left.y = Num(320))
    /\ [][ticks' = ticks + 1 =>
            LET p == Packet(gameState', players, playerSides)
            IN /\ p.state.paddles = JsonState(gameState).paddles
               /\ LeftHolderGone => (p.playerCount = 1 /\ p.activeSides = <<"right">>)]_vars

\* The JSON value j is the number n.
Carries(j, n) == j.t = "number" /\ ~n.nan /\ j.v = n.v

\* C16: a paddle only changes in the handler of an open connection's move for
\* its own side, to the clamped y of that move (so the paddle a tick finds is
\* the one the last such move wrote); a tick leaves both paddles as it found
\* them; and every state packet of the tick carries, for each side, the y the
\* tick found, together with the ball and the scores of the tick's own step.
C16_NoLostUpdate ==
    [][/\ gameState'.paddles # gameState.paddles =>
            /\ ticks' = ticks
            /\ \E c \in 1..Len(conns), m \in Messages :
                   /\ conns[c].open /\ IsMove(m) /\ m.side = SideOf(c)
                   /\ gameState'.paddles =
                          [gameState.paddles EXCEPT ![m.side].y = Clamp(m.y)]
       /\ ticks' = ticks + 1 =>
            /\ gameState'.paddles = gameState.paddles
            /\ \A i \in StatePackets(sent') :
                   /\ Carries(sent'[i].state.paddles.left.y, gameState.paddles.left.y)
                   /\ Carries(sent'[i].state.paddles.right.y, gameState.paddles.right.y)
                   /\ sent'[i].state.ball = JsonState(gameState').ball
                   /\ sent'[i].state.score = gameState'.score]_vars

\* The ids in a registry map.
IdSet(o) == {o[i].id : i \in 1..Len(o)}

\* C17: in every reachable state players and playerSides have the same ids,
\* every side in playerSides is "left" or "right", and the socket stored under
\* each id is that of a connection with this id whose close has not been
\* handled.
C17_RegistryConsistent ==
    /\ IdSet(players) = IdSet(playerSides)
    /\ \A i \in 1..Len(playerSides) : playerSides[i].side \in Sides
    /\ \A i \in 1..Len(players) :
          /\ players[i].sock \in 1..Len(conns)
          /\ conns[players[i].sock].open
          /\ conns[players[i].sock].pid = players[i].id

\* C17's case: one connection has closed, a second with another id than the
\* third has been removed by a failed send and is still open, and the third is
\* registered.
C17_Witness ==
    /\ Len(conns) = 3
    /\ ~conns[1].open /\ conns[2].open /\ conns[3].open
    /\ conns[2].pid # conns[3].pid
    /\ ~HasKey(players, conns[2].pid)
    /\ HasKey(playerSides, conns[3].pid)

\* No two entries of the side map o hold the same side.
NoSharedSide(o) == \A i, j \in 1..Len(o) : i # j => o[i].side # o[j].side

\* The connections accepted so far have different ids.
IdsDiffer(cs) == \A c, d \in 1..Len(cs) : c # d => cs[c].pid # cs[d].pid

\* C18: no step that keeps the ids different and ends with at most two
\* connections registered takes a registry where no two hold the same side to
\* one where two do; and a connection that arrives, with a new id, when one
\* connection is registered gets the side that one does not hold.
C18_NoSharedSide ==
    [][(IdsDiffer(conns') /\ Len(players') <= 2 /\ NoSharedSide(playerSides)) =>
          /\ NoSharedSide(playerSides')
          /\ (Len(conns') = Len(conns) + 1 /\ Len(playerSides) = 1) =>
                 conns'[Len(conns')].assignedSide = OtherSide(playerSides[1].side)]_vars

\* C18's case: the left holder has left, and the next arrival got left while
\* the right holder stayed.
C18_Witness ==
    /\ Len(conns) = 3
    /\ IdsDiffer(conns)
    /\ ~conns[1].open /\ conns[1].assignedSide = "left"
    /\ SideAt(playerSides, conns[2].pid) = "right"
    /\ SideAt(playerSides, conns[3].pid) = "left"
    /\ Len(players) = 2

\* C19: for a connection that a failed send has removed from the registry and
\* whose close has not been handled, the handler of any message leaves
\* gameState as it is (handlers never write the registry), and its close
\* handler would delete no entry of players or playerSides.
C19_RemovedIsInert ==
    \A c \in 1..Len(conns) :
        (conns[c].open /\ conns[c].removed) =>
            /\ \A m \in Messages : HandlerResult(c, m) = gameState
            /\ Delete(players, conns[c].pid) = players
            /\ Delete(playerSides, conns[c].pid) = playerSides

\* C20: in every reachable state vx is 3 or -3, and in the tick that starts
\* there a left paddle collision, if it fires, finds vx < 0 and leaves vx = 3,
\* and a right paddle collision, if it fires, finds vx > 0 and leaves vx = -3.
C20_HorizontalSpeed ==
    LET b1 == WallBounce(Integrate(gameState.ball))
        b2 == LeftCollision(b1, gameState.paddles)
        b3 == RightCollision(b2, gameState.paddles)
    IN /\ gameState.ball.vx \in {Num(3), Num(-3)}
       /\ LeftHit(b1, gameState.paddles) => (JsLt(b1.vx, Num(0)) /\ b2.vx = Num(3))
       /\ RightHit(b2, gameState.paddles) => (JsGt(b2.vx, Num(0)) /\ b3.vx = Num(-3))

\* C20's case: the ball is left of the centre and moves right, which it only
\* does after a left paddle collision.
C20_Witness ==
    /\ JsLt(gameState.ball.x, Num(100))
    /\ gameState.ball.vx = Num(3)

====
